---- MODULE Spec2Model ----
(***************************************************************************)
(* Model of src/py37/ast/Custom/ast37.c: the compile() front door          *)
(* (ast37_compile_impl), the text pipeline (Py_CompileStringObject,        *)
(* PyParser_ASTFromStringObject), the input normaliser (source_as_string)  *)
(* and the diagnostic translator (err_input).                              *)
(*                                                                         *)
(* The tokenizer/parser, the AST builder, the object<->tree conversions,   *)
(* the validator and the code generator are collaborators called through   *)
(* their C interface; each is modelled by the set of outcomes its          *)
(* interface allows (a value, or NULL with an exception raised).           *)
(***************************************************************************)
EXTENDS Integers, Sequences, FiniteSets, TLC

(* ------------------------------ bounds --------------------------------- *)
\* longest source content (code points for text, bytes otherwise)
MaxSourceLen == 2
\* longest offending line carried by an ErrorDetail, in bytes
MaxLineLen == 2

(* ------------------------- bytes and code points ----------------------- *)
NUL == 0
\* 'a'
AsciiByte == 97
\* first byte of the two-byte UTF-8 sequence C3 A9
LeadByte == 195
\* UTF-8 continuation byte
ContByte == 169
\* U+00E9, encoded C3 A9
TwoByteChar == 233
\* a lone low surrogate: no UTF-8 encoding exists
Surrogate == 56448
\* U+FFFD, what the "replace" error handler substitutes
ReplacementChar == 65533

SourceBytes == {NUL, AsciiByte}
SourceCodePoints == {NUL, AsciiByte, TwoByteChar, Surrogate}
LineBytes == {AsciiByte, LeadByte, ContByte}

SeqsUpTo(S, k) == UNION {[1..m -> S] : m \in 0..k}

(* ------------------------------- flags --------------------------------- *)
\* the bits of PyCF_MASK that the model distinguishes
PyCF_MASK == {"CO_FUTURE_BARRY_AS_BDFL"}
PyCF_MASK_OBSOLETE == {"CO_NESTED"}
\* what line 290 lets through
RecognisedFlags ==
    PyCF_MASK \cup PyCF_MASK_OBSOLETE \cup {"PyCF_DONT_IMPLY_DEDENT", "PyCF_ONLY_AST"}
\* the bits a caller may pass in this model; PyCF_IGNORE_COOKIE is a real
\* compiler flag that line 290 does not recognise
CallerFlagBits ==
    {"PyCF_ONLY_AST", "PyCF_DONT_IMPLY_DEDENT", "CO_FUTURE_BARRY_AS_BDFL", "PyCF_IGNORE_COOKIE"}

OptimizeValues == -2..3
Modes == {"exec", "eval", "single", "other"}
Filename == "f.py"

\* line 284: start[] = {Py_file_input, Py_eval_input, Py_single_input}
start == <<"Py_file_input", "Py_eval_input", "Py_single_input">>

(* ------------------------------ values --------------------------------- *)
NULL == [kind |-> "NULL"]

\* the exception indicator of the calling thread: empty, or one exception
NoExc ==
    [type |-> "none", msg |-> "", hasPos |-> FALSE, lineno |-> 0, offset |-> 0,
     hasText |-> FALSE, text |-> <<>>]
Exc(type, msg) ==
    [type |-> type, msg |-> msg, hasPos |-> FALSE, lineno |-> 0, offset |-> 0,
     hasText |-> FALSE, text |-> <<>>]

\* a parse tree of source s under a start symbol and parser flags
Node(s, st, pf) == [kind |-> "node", src |-> s, start |-> st, pflags |-> pf]
Mod(tree) == [kind |-> "mod", tree |-> tree]
AstObject(m) == [kind |-> "ast", of |-> m]

TextSources == {[kind |-> "str", data |-> d] : d \in SeqsUpTo(SourceCodePoints, MaxSourceLen)}
ByteSources ==
    {[kind |-> k, data |-> d] : k \in {"bytes", "bytearray", "buffer"},
                                 d \in SeqsUpTo(SourceBytes, MaxSourceLen)}
\* AST objects built by the caller, one per kind of root node
ForeignAsts == {AstObject(Mod(Node(<<AsciiByte>>, start[i], {}))) : i \in 1..3}
\* an object that is neither text, bytes-like nor an AST
OtherSource == [kind |-> "other", data |-> <<>>]
Sources == TextSources \cup ByteSources \cup ForeignAsts \cup {OtherSource}

NoCall ==
    [source |-> NULL, filename |-> "", mode |-> "", flags |-> {},
     dont_inherit |-> FALSE, optimize |-> 0]

VARIABLES
    pc,            \* where the call is
    call,          \* the arguments of ast37_compile_impl
    ambient,       \* compiler flags of the enclosing execution context
    cf_flags,      \* cf.cf_flags
    compile_mode,  \* -1, or the index of the mode
    str,           \* what source_as_string returned: <<>> (NULL) or <<bytes>>
    source_copy,   \* "none", "held" or "released": the temporary bytes copy
    arena,         \* "none", "live" or "freed"
    arenaNews,     \* arenas created in this call
    arenaFrees,    \* PyArena_Free calls in this call
    iflags,        \* the parser flags, as the parser leaves them
    n,             \* the parse tree, or NULL
    err,           \* the perrdetail of the parse
    textbuf,       \* "none", "live" or "freed": the buffer err.text points to
    raised,        \* the exception pending when err_input was entered
    errInputSet,   \* whether err_input set the exception indicator
    mod,           \* the AST (mod_ty), or NULL
    result,        \* what the call returns
    exc,           \* the exception indicator
    stages,        \* the collaborators invoked in this call, in order
    gen,           \* what the code generator received, or NULL
    session        \* earlier calls of the session that a later one refers to

vars ==
    <<pc, call, ambient, cf_flags, compile_mode, str, source_copy, arena, arenaNews,
      arenaFrees, iflags, n, err, textbuf, raised, errInputSet, mod, result, exc,
      stages, gen, session>>

NoErr ==
    [error |-> "E_OK", expected |-> "none", token |-> "none", lineno |-> 0,
     offset |-> 0, text |-> FALSE, line |-> <<>>, filename |-> FALSE]

\* a session that runs no script
NoSession ==
    [step |-> 0, ast |-> NULL, direct |-> NULL, text |-> <<>>, flags |-> {},
     dont_inherit |-> FALSE, ambient |-> {}, optimize |-> 0]

Fresh ==
    /\ pc = "idle"
    /\ call = NoCall
    /\ ambient = {}
    /\ cf_flags = {}
    /\ compile_mode = -1
    /\ str = <<>>
    /\ source_copy = "none"
    /\ arena = "none"
    /\ arenaNews = 0
    /\ arenaFrees = 0
    /\ iflags = {}
    /\ n = NULL
    /\ err = NoErr
    /\ textbuf = "none"
    /\ raised = NoExc
    /\ errInputSet = FALSE
    /\ mod = NULL
    /\ result = NULL
    /\ exc = NoExc
    /\ stages = <<>>
    /\ gen = NULL

Init == Fresh /\ session = NoSession

parseVars == <<iflags, n, err, textbuf, raised, errInputSet>>
arenaVars == <<arena, arenaNews, arenaFrees>>

(* ------------------------- ast37_compile_impl -------------------------- *)
\* line 287: cf.cf_flags = flags | PyCF_SOURCE_IS_UTF8
Enter(source, mode, flags, dont_inherit, amb, optimize) ==
    /\ pc = "idle"
    /\ call' = [source |-> source, filename |-> Filename, mode |-> mode, flags |-> flags,
                dont_inherit |-> dont_inherit, optimize |-> optimize]
    /\ ambient' = amb
    /\ cf_flags' = flags \cup {"PyCF_SOURCE_IS_UTF8"}
    /\ pc' = "flags"
    /\ UNCHANGED <<compile_mode, str, source_copy, arenaVars, parseVars, mod, result,
                   exc, stages, gen>>

Call ==
    /\ pc = "idle"
    /\ \E source \in Sources, mode \in Modes, flags \in SUBSET CallerFlagBits,
          dont_inherit \in BOOLEAN, amb \in SUBSET PyCF_MASK, optimize \in OptimizeValues :
           /\ dont_inherit => amb = {}
           /\ Enter(source, mode, flags, dont_inherit, amb, optimize)
    /\ UNCHANGED session

\* mutant: the mask of line 290 also lets PyCF_IGNORE_COOKIE through
UnrecognisedFlags_CookieAllowed(flags) ==
    flags \ (RecognisedFlags \cup {"PyCF_IGNORE_COOKIE"})

\* line 289-290: flags & ~(PyCF_MASK | PyCF_MASK_OBSOLETE | PyCF_DONT_IMPLY_DEDENT | PyCF_ONLY_AST)
UnrecognisedFlags(flags) == flags \ RecognisedFlags

\* lines 289-295
CheckFlags ==
    /\ pc = "flags"
    /\ IF UnrecognisedFlags(call.flags) # {}
         THEN /\ exc' = Exc("ValueError", "compile(): unrecognised flags")
              /\ pc' = "error"
         ELSE /\ pc' = "optimize"
              /\ UNCHANGED exc
    /\ UNCHANGED <<call, ambient, cf_flags, compile_mode, str, source_copy, arenaVars,
                   parseVars, mod, result, stages, gen, session>>

\* line 298: optimize < -1 || optimize > 2
InvalidOptimize(optimize) == optimize < -1 \/ optimize > 2

\* lines 298-302
CheckOptimize ==
    /\ pc = "optimize"
    /\ IF InvalidOptimize(call.optimize)
         THEN /\ exc' = Exc("ValueError", "compile(): invalid optimize value")
              /\ pc' = "error"
         ELSE /\ pc' = "inherit"
              /\ UNCHANGED exc
    /\ UNCHANGED <<call, ambient, cf_flags, compile_mode, str, source_copy, arenaVars,
                   parseVars, mod, result, stages, gen, session>>

\* lines 304-306: PyEval_MergeCompilerFlags ors in the enclosing frame's
\* co_flags & PyCF_MASK
MergeFlags ==
    /\ pc = "inherit"
    /\ cf_flags' = IF call.dont_inherit THEN cf_flags
                   ELSE cf_flags \cup (ambient \cap PyCF_MASK)
    /\ pc' = "mode"
    /\ UNCHANGED <<call, ambient, compile_mode, str, source_copy, arenaVars, parseVars,
                   mod, result, exc, stages, gen, session>>

\* lines 308-313: the index of the mode, or -1
ModeIndex(mode) ==
    IF mode = "exec" THEN 0
    ELSE IF mode = "eval" THEN 1
    ELSE IF mode = "single" THEN 2
    ELSE -1

\* lines 308-318
CheckMode ==
    /\ pc = "mode"
    /\ compile_mode' = ModeIndex(call.mode)
    /\ IF ModeIndex(call.mode) = -1
         THEN /\ exc' = Exc("ValueError", "compile() mode must be 'exec', 'eval' or 'single'")
              /\ pc' = "error"
         ELSE /\ pc' = "is_ast"
              /\ UNCHANGED exc
    /\ UNCHANGED <<call, ambient, cf_flags, str, source_copy, arenaVars, parseVars, mod,
                   result, stages, gen, session>>

\* PyAST_Check: 1 for an AST object, 0 for any other, -1 with an exception
\* raised when the instance check itself fails
PyAST_Check(source) == {IF source.kind = "ast" THEN 1 ELSE 0, -1}

\* lines 320-327 and 348
CheckAst ==
    /\ pc = "is_ast"
    /\ \E is_ast \in PyAST_Check(call.source) :
         IF is_ast = -1
           THEN /\ exc' = Exc("Exception", "raised by PyAST_Check")
                /\ pc' = "error"
                /\ UNCHANGED result
           ELSE IF is_ast = 1
             THEN IF "PyCF_ONLY_AST" \in call.flags
                    THEN /\ result' = call.source
                         /\ pc' = "finally"
                         /\ UNCHANGED exc
                    ELSE /\ pc' = "ast_arena"
                         /\ UNCHANGED <<result, exc>>
             ELSE /\ pc' = "source"
                  /\ UNCHANGED <<result, exc>>
    /\ UNCHANGED <<call, ambient, cf_flags, compile_mode, str, source_copy, arenaVars,
                   parseVars, mod, stages, gen, session>>

\* PyArena_New: an arena, or NULL with MemoryError raised
PyArena_New == {"live", "none"}

\* lines 332-334
AstArenaNew ==
    /\ pc = "ast_arena"
    /\ \E a \in PyArena_New :
         /\ arena' = a
         /\ IF a = "none"
              THEN /\ exc' = Exc("MemoryError", "")
                   /\ pc' = "error"
                   /\ UNCHANGED arenaNews
              ELSE /\ arenaNews' = arenaNews + 1
                   /\ pc' = "obj2mod"
                   /\ UNCHANGED exc
    /\ stages' = Append(stages, "PyArena_New")
    /\ UNCHANGED <<call, ambient, cf_flags, compile_mode, str, source_copy, arenaFrees,
                   parseVars, mod, result, gen, session>>

\* PyAST_obj2mod: the tree of the object when its root node is the one the
\* mode asks for, else NULL with an exception raised; it may also fail on any
\* malformed field
PyAST_obj2mod(obj, mode) ==
    (IF obj.of.tree.start = start[mode + 1] THEN {obj.of} ELSE {}) \cup {NULL}

\* lines 335-339
AstObj2Mod ==
    /\ pc = "obj2mod"
    /\ \E m \in PyAST_obj2mod(call.source, compile_mode) :
         /\ mod' = m
         /\ IF m = NULL
              THEN /\ arena' = "freed"
                   /\ arenaFrees' = arenaFrees + 1
                   /\ exc' = Exc("TypeError", "raised by PyAST_obj2mod")
                   /\ pc' = "error"
              ELSE /\ pc' = "validate"
                   /\ UNCHANGED <<arena, arenaFrees, exc>>
    /\ stages' = Append(stages, "PyAST_obj2mod")
    /\ UNCHANGED <<call, ambient, cf_flags, compile_mode, str, source_copy, arenaNews,
                   parseVars, result, gen, session>>

\* PyAST_Validate: 1, or 0 with ValueError raised
PyAST_Validate == {TRUE, FALSE}

\* mutant: the rejection path returns without PyArena_Free
AstValidate_Leak ==
    /\ pc = "validate"
    /\ \E ok \in PyAST_Validate :
         IF ~ok
           THEN /\ exc' = Exc("ValueError", "raised by PyAST_Validate")
                /\ pc' = "error"
           ELSE /\ pc' = "ast_compile"
                /\ UNCHANGED exc
    /\ stages' = Append(stages, "PyAST_Validate")
    /\ UNCHANGED <<call, ambient, cf_flags, compile_mode, str, source_copy, arenaVars,
                   parseVars, mod, result, gen, session>>

\* lines 340-343
AstValidate ==
    /\ pc = "validate"
    /\ \E ok \in PyAST_Validate :
         IF ~ok
           THEN /\ arena' = "freed"
                /\ arenaFrees' = arenaFrees + 1
                /\ exc' = Exc("ValueError", "raised by PyAST_Validate")
                /\ pc' = "error"
           ELSE /\ pc' = "ast_compile"
                /\ UNCHANGED <<arena, arenaFrees, exc>>
    /\ stages' = Append(stages, "PyAST_Validate")
    /\ UNCHANGED <<call, ambient, cf_flags, compile_mode, str, source_copy, arenaNews,
                   parseVars, mod, result, gen, session>>

\* what the code generator is handed
GenArgs(m, filename, flags, optimize) ==
    [kind |-> "args", mod |-> m, filename |-> filename, flags |-> flags,
     optimize |-> optimize]

\* PyAST_CompileObject: a code object made from its arguments, or NULL with
\* an exception raised
PyAST_CompileObject(args) == {[kind |-> "code", from |-> args], NULL}

\* mutant: the caller's flags are passed instead of cf
AstCompileArgs_CallerFlags == GenArgs(mod, call.filename, call.flags, call.optimize)

\* lines 344-345: the arguments of the call in the pre-built-AST branch
AstCompileArgs == GenArgs(mod, call.filename, cf_flags, call.optimize)

\* lines 344-348
AstCompile ==
    /\ pc = "ast_compile"
    /\ gen' = AstCompileArgs
    /\ \E co \in PyAST_CompileObject(gen') :
         /\ result' = co
         /\ exc' = IF co = NULL THEN Exc("SystemError", "raised by PyAST_CompileObject")
                    ELSE exc
    /\ arena' = "freed"
    /\ arenaFrees' = arenaFrees + 1
    /\ stages' = Append(stages, "PyAST_CompileObject")
    /\ pc' = "finally"
    /\ UNCHANGED <<call, ambient, cf_flags, compile_mode, str, source_copy, arenaNews,
                   parseVars, mod, session>>

(* --------------------------- source_as_string -------------------------- *)
RECURSIVE EncodeUTF8(_)
\* the UTF-8 bytes of a sequence of code points (none of them a surrogate)
EncodeUTF8(cps) ==
    IF cps = <<>> THEN <<>>
    ELSE (IF Head(cps) = TwoByteChar THEN <<LeadByte, ContByte>> ELSE <<Head(cps)>>)
         \o EncodeUTF8(Tail(cps))

\* PyUnicode_AsUTF8AndSize: <<bytes>>, or <<>> (NULL, UnicodeEncodeError
\* raised) when a code point has no UTF-8 encoding
PyUnicode_AsUTF8AndSize(cps) ==
    IF \E i \in 1..Len(cps) : cps[i] = Surrogate THEN <<>> ELSE <<EncodeUTF8(cps)>>

\* strlen: the number of bytes before the first NUL (the buffer is
\* NUL-terminated after its last byte)
strlen(bytes) ==
    IF \E i \in 1..Len(bytes) : bytes[i] = NUL
      THEN (CHOOSE i \in 1..Len(bytes) :
                /\ bytes[i] = NUL
                /\ \A j \in 1..(i - 1) : bytes[j] # NUL) - 1
      ELSE Len(bytes)

\* mutant: the lengths are compared with > instead of !=
HasNullBytes_Greater(bytes) == strlen(bytes) > Len(bytes)

\* line 54: strlen(str) != (size_t)size
HasNullBytes(bytes) == strlen(bytes) # Len(bytes)

\* PyBytes_FromStringAndSize: a copy, or NULL with MemoryError raised
PyBytes_FromStringAndSize == {TRUE, FALSE}

\* lines 54-60, once str and size are known
NullCheck(bytes, copied) ==
    IF HasNullBytes(bytes)
      THEN /\ exc' = Exc("ValueError", "source code string cannot contain null bytes")
           /\ source_copy' = IF copied THEN "released" ELSE source_copy
           /\ str' = <<>>
           /\ pc' = "error"
      ELSE /\ str' = <<bytes>>
           /\ source_copy' = IF copied THEN "held" ELSE source_copy
           /\ pc' = "str_arena"
           /\ UNCHANGED exc

\* lines 351-353 and 14-61
SourceAsString ==
    /\ pc = "source"
    /\ LET cmd == call.source IN
         IF cmd.kind = "str"
           THEN /\ cf_flags' = cf_flags \cup {"PyCF_IGNORE_COOKIE"}
                /\ IF PyUnicode_AsUTF8AndSize(cmd.data) = <<>>
                     THEN /\ exc' = Exc("UnicodeEncodeError", "surrogates not allowed")
                          /\ str' = <<>>
                          /\ pc' = "error"
                          /\ UNCHANGED source_copy
                     ELSE NullCheck(PyUnicode_AsUTF8AndSize(cmd.data)[1], FALSE)
           ELSE IF cmd.kind \in {"bytes", "bytearray"}
             THEN /\ NullCheck(cmd.data, FALSE)
                  /\ UNCHANGED cf_flags
           ELSE IF cmd.kind = "buffer"
             THEN /\ UNCHANGED cf_flags
                  /\ \E copied \in PyBytes_FromStringAndSize :
                       IF ~copied
                         THEN /\ exc' = Exc("MemoryError", "")
                              /\ str' = <<>>
                              /\ pc' = "error"
                              /\ UNCHANGED source_copy
                         ELSE NullCheck(cmd.data, TRUE)
           ELSE /\ exc' = Exc("TypeError", "compile() arg 1 must be a string, bytes or AST object")
                /\ str' = <<>>
                /\ pc' = "error"
                /\ UNCHANGED <<cf_flags, source_copy>>
    /\ stages' = Append(stages, "source_as_string")
    /\ UNCHANGED <<call, ambient, compile_mode, arenaVars, parseVars, mod, result, gen,
                   session>>

(* ------------------------- Py_CompileStringObject ---------------------- *)
\* lines 253-255
StrArenaNew ==
    /\ pc = "str_arena"
    /\ \E a \in PyArena_New :
         /\ arena' = a
         /\ IF a = "none"
              THEN /\ exc' = Exc("MemoryError", "")
                   /\ result' = NULL
                   /\ pc' = "str_return"
                   /\ UNCHANGED arenaNews
              ELSE /\ arenaNews' = arenaNews + 1
                   /\ pc' = "parse"
                   /\ UNCHANGED <<exc, result>>
    /\ stages' = Append(stages, "PyArena_New")
    /\ UNCHANGED <<call, ambient, cf_flags, compile_mode, str, source_copy, arenaFrees,
                   parseVars, mod, gen, session>>

\* mutant: PyPARSE_BARRY_AS_BDFL is set whatever the compiler flags
PARSER_FLAGS_AlwaysBarry(flags) ==
    (IF "PyCF_DONT_IMPLY_DEDENT" \in flags THEN {"PyPARSE_DONT_IMPLY_DEDENT"} ELSE {})
    \cup (IF "PyCF_IGNORE_COOKIE" \in flags THEN {"PyPARSE_IGNORE_COOKIE"} ELSE {})
    \cup {"PyPARSE_BARRY_AS_BDFL"}

\* lines 65-77
PARSER_FLAGS(flags) ==
    (IF "PyCF_DONT_IMPLY_DEDENT" \in flags THEN {"PyPARSE_DONT_IMPLY_DEDENT"} ELSE {})
    \cup (IF "PyCF_IGNORE_COOKIE" \in flags THEN {"PyPARSE_IGNORE_COOKIE"} ELSE {})
    \cup (IF "CO_FUTURE_BARRY_AS_BDFL" \in flags THEN {"PyPARSE_BARRY_AS_BDFL"} ELSE {})

(* ------------------ the tokenizer and parser (interface) --------------- *)
ErrorKinds ==
    {"E_EOF", "E_INTR", "E_TOKEN", "E_SYNTAX", "E_NOMEM", "E_ERROR", "E_TABSPACE",
     "E_OVERFLOW", "E_TOODEEP", "E_DEDENT", "E_DECODE", "E_EOFS", "E_EOLS",
     "E_LINECONT", "E_IDENTIFIER", "E_BADSINGLE", "E_UNKNOWN"}
TokenKinds == {"NAME", "INDENT", "DEDENT", "NOTEQUAL"}

\* the offending line and the byte offset in it: absent, or a line of at most
\* k bytes with an offset between its start and its end
LinesAndOffsets(k) ==
    {<<FALSE, <<>>, o>> : o \in 0..k}
    \cup {<<TRUE, l, o>> : l \in SeqsUpTo(LineBytes, k), o \in 0..k}

Detail(kind, expected, token, lo) ==
    [error |-> kind, expected |-> expected, token |-> token, lineno |-> 1,
     offset |-> lo[3], text |-> lo[1], line |-> lo[2], filename |-> TRUE]

\* every ErrorDetail over the given token kinds and lines
Details(tokens, lines) ==
    {Detail(k, e, t, lo) : k \in ErrorKinds, e \in tokens, t \in tokens,
                           lo \in {x \in lines : x[3] <= Len(x[2]) \/ ~x[1]}}

\* the exception the parser leaves raised with each kind: E_ERROR reports an
\* exception already raised; E_DECODE and E_INTR may or may not come with one
ParserRaises(kind) ==
    IF kind = "E_ERROR" THEN {Exc("Exception", "raised by the parser")}
    ELSE IF kind = "E_DECODE" THEN {NoExc, Exc("UnicodeDecodeError", "invalid start byte")}
    ELSE IF kind = "E_INTR" THEN {NoExc, Exc("KeyboardInterrupt", "")}
    ELSE {NoExc}

\* the relaxed-grammar not-equal substitution is recognised only under the
\* parser flag
ParserMayReport(d, pflags) ==
    d.expected = "NOTEQUAL" => "PyPARSE_BARRY_AS_BDFL" \in pflags

\* lines 224-228: PyParser_ParseStringObject yields one parse tree (with the
\* future features it met added to the flags) or one ErrorDetail
ParseWith(details) ==
    /\ pc = "parse"
    /\ LET pf == PARSER_FLAGS(cf_flags) IN
         \/ \E future \in SUBSET PyCF_MASK :
              /\ n' = Node(str[1], start[compile_mode + 1], pf)
              /\ iflags' = pf \cup future
              /\ err' = [NoErr EXCEPT !.error = "E_DONE", !.filename = TRUE]
              /\ UNCHANGED <<textbuf, raised, exc>>
         \/ \E d \in details : \E r \in ParserRaises(d.error) :
              /\ ParserMayReport(d, pf)
              /\ n' = NULL
              /\ iflags' = pf
              /\ err' = d
              /\ textbuf' = IF d.text THEN "live" ELSE "none"
              /\ raised' = r
              /\ exc' = r
    /\ stages' = Append(stages, "PyParser_ParseStringObject")
    /\ pc' = "parsed"
    /\ UNCHANGED <<call, ambient, cf_flags, compile_mode, str, source_copy, arenaVars,
                   errInputSet, mod, result, gen, session>>

(* ------------------------------ err_input ------------------------------ *)
\* mutant: the E_TOODEEP case does not assign errtype
err_input_errtype_TooDeep(e) ==
    IF e.error = "E_SYNTAX"
      THEN IF e.expected = "INDENT" THEN "IndentationError"
           ELSE IF e.token = "INDENT" THEN "IndentationError"
           ELSE IF e.token = "DEDENT" THEN "IndentationError"
           ELSE "SyntaxError"
    ELSE IF e.error = "E_TABSPACE" THEN "TabError"
    ELSE IF e.error = "E_DEDENT" THEN "IndentationError"
    ELSE "SyntaxError"

\* lines 89-169: the exception type the switch selects
err_input_errtype(e) ==
    IF e.error = "E_SYNTAX"
      THEN IF e.expected = "INDENT" THEN "IndentationError"
           ELSE IF e.token = "INDENT" THEN "IndentationError"
           ELSE IF e.token = "DEDENT" THEN "IndentationError"
           ELSE IF e.expected = "NOTEQUAL" THEN "SyntaxError"
           ELSE "SyntaxError"
    ELSE IF e.error = "E_TABSPACE" THEN "TabError"
    ELSE IF e.error = "E_DEDENT" THEN "IndentationError"
    ELSE IF e.error = "E_TOODEEP" THEN "IndentationError"
    ELSE "SyntaxError"

\* lines 89-169: the message the switch selects; for E_DECODE, the text of
\* the exception fetched from the indicator when there is one
err_input_msg(e, pending) ==
    IF e.error = "E_SYNTAX"
      THEN IF e.expected = "INDENT" THEN "expected an indented block"
           ELSE IF e.token = "INDENT" THEN "unexpected indent"
           ELSE IF e.token = "DEDENT" THEN "unexpected unindent"
           ELSE IF e.expected = "NOTEQUAL"
             THEN "with Barry as BDFL, use '<>' instead of '!='"
           ELSE "invalid syntax"
    ELSE IF e.error = "E_TOKEN" THEN "invalid token"
    ELSE IF e.error = "E_EOFS" THEN "EOF while scanning triple-quoted string literal"
    ELSE IF e.error = "E_EOLS" THEN "EOL while scanning string literal"
    ELSE IF e.error = "E_EOF" THEN "unexpected EOF while parsing"
    ELSE IF e.error = "E_TABSPACE"
      THEN "inconsistent use of tabs and spaces in indentation"
    ELSE IF e.error = "E_OVERFLOW" THEN "expression too long"
    ELSE IF e.error = "E_DEDENT"
      THEN "unindent does not match any outer indentation level"
    ELSE IF e.error = "E_TOODEEP" THEN "too many levels of indentation"
    ELSE IF e.error = "E_DECODE"
      THEN IF pending # NoExc THEN pending.msg ELSE "unknown decode error"
    ELSE IF e.error = "E_LINECONT"
      THEN "unexpected character after line continuation character"
    ELSE IF e.error = "E_IDENTIFIER" THEN "invalid character in identifier"
    ELSE IF e.error = "E_BADSINGLE"
      THEN "multiple statements found while compiling a single statement"
    ELSE "unknown parsing error"

RECURSIVE PyUnicode_DecodeUTF8(_)
\* PyUnicode_DecodeUTF8(s, size, "replace"): a well-formed sequence gives its
\* code point; a byte that starts none (a stray continuation byte, or a lead
\* byte without its continuation) gives U+FFFD and decoding resumes after it
PyUnicode_DecodeUTF8(bytes) ==
    IF bytes = <<>> THEN <<>>
    ELSE IF Head(bytes) < 128
      THEN <<Head(bytes)>> \o PyUnicode_DecodeUTF8(Tail(bytes))
    ELSE IF Head(bytes) = LeadByte /\ Len(bytes) >= 2 /\ bytes[2] = ContByte
      THEN <<TwoByteChar>> \o PyUnicode_DecodeUTF8(Tail(Tail(bytes)))
    ELSE <<ReplacementChar>> \o PyUnicode_DecodeUTF8(Tail(bytes))

\* mutant: the byte offset is reported as it was recorded
err_input_offset_Bytes(e) == e.offset

\* lines 87 and 172-187: the column that is reported
err_input_offset(e) ==
    IF ~e.text THEN e.offset
    ELSE Len(PyUnicode_DecodeUTF8(SubSeq(e.line, 1, e.offset)))

\* lines 172-187: the line text that is reported (the first decoding covers
\* the whole line exactly when the offset is the line's length)
err_input_errtext(e) ==
    IF ~e.text THEN <<>>
    ELSE IF strlen(e.line) # e.offset THEN PyUnicode_DecodeUTF8(SubSeq(e.line, 1, strlen(e.line)))
    ELSE PyUnicode_DecodeUTF8(SubSeq(e.line, 1, e.offset))

\* lines 188-198: PyErr_SetObject(errtype, (msg, (filename, lineno, offset, errtext)));
\* when a value cannot be allocated the exception is set without one
err_input_exception(e, pending, allocated) ==
    IF allocated
      THEN [type |-> err_input_errtype(e), msg |-> err_input_msg(e, pending),
            hasPos |-> TRUE, lineno |-> e.lineno, offset |-> err_input_offset(e),
            hasText |-> e.text, text |-> err_input_errtext(e)]
      ELSE Exc(err_input_errtype(e), "")

\* mutant: the E_NOMEM case leaves for the cleanup label without PyErr_NoMemory
err_input_NoMemSilent(e, pending, allocated) ==
    IF e.error \in {"E_ERROR", "E_NOMEM"} THEN pending
    ELSE IF e.error = "E_INTR"
      THEN IF pending = NoExc THEN Exc("KeyboardInterrupt", "") ELSE pending
    ELSE err_input_exception(e, pending, allocated)

\* lines 82-206: the exception indicator after err_input
err_input(e, pending, allocated) ==
    IF e.error = "E_ERROR" THEN pending
    ELSE IF e.error = "E_INTR"
      THEN IF pending = NoExc THEN Exc("KeyboardInterrupt", "") ELSE pending
    ELSE IF e.error = "E_NOMEM" THEN Exc("MemoryError", "")
    ELSE err_input_exception(e, pending, allocated)

\* whether err_input itself called a PyErr_Set function
err_input_sets(e, pending) ==
    IF e.error = "E_ERROR" THEN FALSE
    ELSE IF e.error = "E_INTR" THEN pending = NoExc
    ELSE TRUE

(* --------------------- PyParser_ASTFromStringObject -------------------- *)
\* PyAST_FromNodeObject: the AST of the tree, or NULL with an exception raised
PyAST_FromNodeObject(tree) == {Mod(tree), NULL}

\* lines 233-237 and 242-243
ASTFromNode ==
    /\ pc = "parsed"
    /\ n # NULL
    /\ cf_flags' = cf_flags \cup (iflags \cap PyCF_MASK)
    /\ \E m \in PyAST_FromNodeObject(n) :
         /\ mod' = m
         /\ exc' = IF m = NULL THEN Exc("SyntaxError", "raised by PyAST_FromNodeObject")
                    ELSE exc
    /\ n' = NULL
    /\ err' = [err EXCEPT !.filename = FALSE]
    /\ stages' = Append(stages, "PyAST_FromNodeObject")
    /\ pc' = "mod"
    /\ UNCHANGED <<call, ambient, compile_mode, str, source_copy, arenaVars, iflags,
                   textbuf, raised, errInputSet, result, gen, session>>

\* lines 238-243 and 82-206
ErrInput ==
    /\ pc = "parsed"
    /\ n = NULL
    /\ \E allocated \in BOOLEAN :
         exc' = err_input(err, exc, allocated)
    /\ errInputSet' = err_input_sets(err, exc)
    /\ textbuf' = IF err.text THEN "freed" ELSE textbuf
    /\ err' = [err EXCEPT !.text = FALSE, !.filename = FALSE]
    /\ mod' = NULL
    /\ stages' = Append(stages, "err_input")
    /\ pc' = "mod"
    /\ UNCHANGED <<call, ambient, cf_flags, compile_mode, str, source_copy, arenaVars,
                   iflags, n, raised, result, gen, session>>

(* ------------------- Py_CompileStringObject, continued ----------------- *)
\* PyAST_mod2obj: the AST as an object, or NULL with an exception raised
PyAST_mod2obj(m) == {AstObject(m), NULL}

\* lines 258-266
StrAfterParse ==
    /\ pc = "mod"
    /\ IF mod = NULL
         THEN /\ arena' = "freed"
              /\ arenaFrees' = arenaFrees + 1
              /\ result' = NULL
              /\ pc' = "str_return"
              /\ UNCHANGED <<exc, stages>>
         ELSE IF "PyCF_ONLY_AST" \in cf_flags
           THEN /\ \E obj \in PyAST_mod2obj(mod) :
                     /\ result' = obj
                     /\ exc' = IF obj = NULL THEN Exc("MemoryError", "") ELSE exc
                /\ arena' = "freed"
                /\ arenaFrees' = arenaFrees + 1
                /\ stages' = Append(stages, "PyAST_mod2obj")
                /\ pc' = "str_return"
           ELSE /\ pc' = "str_compile"
                /\ UNCHANGED <<arena, arenaFrees, result, exc, stages>>
    /\ UNCHANGED <<call, ambient, cf_flags, compile_mode, str, source_copy, arenaNews,
                   parseVars, mod, gen, session>>

\* lines 267-269
StrCompile ==
    /\ pc = "str_compile"
    /\ gen' = GenArgs(mod, call.filename, cf_flags, call.optimize)
    /\ \E co \in PyAST_CompileObject(gen') :
         /\ result' = co
         /\ exc' = IF co = NULL THEN Exc("SystemError", "raised by PyAST_CompileObject")
                    ELSE exc
    /\ arena' = "freed"
    /\ arenaFrees' = arenaFrees + 1
    /\ stages' = Append(stages, "PyAST_CompileObject")
    /\ pc' = "str_return"
    /\ UNCHANGED <<call, ambient, cf_flags, compile_mode, str, source_copy, arenaNews,
                   parseVars, mod, session>>

(* --------------------- ast37_compile_impl, the exits ------------------- *)
\* lines 355-357: Py_XDECREF(source_copy); goto finally
StrReturn ==
    /\ pc = "str_return"
    /\ source_copy' = IF source_copy = "held" THEN "released" ELSE source_copy
    /\ pc' = "finally"
    /\ UNCHANGED <<call, ambient, cf_flags, compile_mode, str, arenaVars, parseVars, mod,
                   result, exc, stages, gen, session>>

\* lines 359-360
Error ==
    /\ pc = "error"
    /\ result' = NULL
    /\ pc' = "finally"
    /\ UNCHANGED <<call, ambient, cf_flags, compile_mode, str, source_copy, arenaVars,
                   parseVars, mod, exc, stages, gen, session>>

\* lines 361-363
Finally ==
    /\ pc = "finally"
    /\ pc' = "done"
    /\ UNCHANGED <<call, ambient, cf_flags, compile_mode, str, source_copy, arenaVars,
                   parseVars, mod, result, exc, stages, gen, session>>

\* the caller takes the result or the exception; the next call starts afresh
Reset ==
    /\ pc' = "idle"
    /\ call' = NoCall
    /\ ambient' = {}
    /\ cf_flags' = {}
    /\ compile_mode' = -1
    /\ str' = <<>>
    /\ source_copy' = "none"
    /\ arena' = "none"
    /\ arenaNews' = 0
    /\ arenaFrees' = 0
    /\ iflags' = {}
    /\ n' = NULL
    /\ err' = NoErr
    /\ textbuf' = "none"
    /\ raised' = NoExc
    /\ errInputSet' = FALSE
    /\ mod' = NULL
    /\ result' = NULL
    /\ exc' = NoExc
    /\ stages' = <<>>
    /\ gen' = NULL

Return ==
    /\ pc = "done"
    /\ Reset
    /\ UNCHANGED session

(* --------------------------- specifications ---------------------------- *)
\* the ErrorDetails of the whole-pipeline specification: every kind, with
\* and without an offending line
PipelineDetails ==
    Details({"NAME"}, {<<FALSE, <<>>, 0>>, <<TRUE, <<AsciiByte>>, 1>>})

ParseString == ParseWith(PipelineDetails)

Steps ==
    \/ CheckFlags
    \/ CheckOptimize
    \/ MergeFlags
    \/ CheckMode
    \/ CheckAst
    \/ AstArenaNew
    \/ AstObj2Mod
    \/ AstValidate
    \/ AstCompile
    \/ SourceAsString
    \/ StrArenaNew
    \/ ASTFromNode
    \/ ErrInput
    \/ StrAfterParse
    \/ StrCompile
    \/ StrReturn
    \/ Error
    \/ Finally

Next == Call \/ ParseString \/ Steps \/ Return

Spec == Init /\ [][Next]_vars

(* PyParser_ASTFromStringObject on its own: it is entered with the string,  *)
(* the start symbol, the compiler flags and a live arena, as                *)
(* Py_CompileStringObject enters it for a text source in "exec" mode.       *)
AllDetails == Details(TokenKinds, LinesAndOffsets(MaxLineLen))

ParseStringDiag == ParseWith(AllDetails)

InitDiag ==
    /\ pc = "parse"
    /\ \E flags \in SUBSET {"CO_FUTURE_BARRY_AS_BDFL"}, amb \in SUBSET PyCF_MASK :
         /\ call = [source |-> [kind |-> "str", data |-> <<AsciiByte>>],
                    filename |-> Filename, mode |-> "exec", flags |-> flags,
                    dont_inherit |-> FALSE, optimize |-> -1]
         /\ ambient = amb
         /\ cf_flags = flags \cup amb \cup {"PyCF_SOURCE_IS_UTF8", "PyCF_IGNORE_COOKIE"}
    /\ compile_mode = 0
    /\ str = <<(<<AsciiByte>>)>>
    /\ source_copy = "none"
    /\ arena = "live"
    /\ arenaNews = 1
    /\ arenaFrees = 0
    /\ iflags = {}
    /\ n = NULL
    /\ err = NoErr
    /\ textbuf = "none"
    /\ raised = NoExc
    /\ errInputSet = FALSE
    /\ mod = NULL
    /\ result = NULL
    /\ exc = NoExc
    /\ stages = <<"source_as_string", "PyArena_New">>
    /\ gen = NULL
    /\ session = NoSession

NextDiag == ParseStringDiag \/ ASTFromNode \/ ErrInput

SpecDiag == InitDiag /\ [][NextDiag]_vars

(* A session of three calls on one text in "exec" mode with the same flags, *)
(* context and optimize: the text with PyCF_ONLY_AST added, the text        *)
(* itself, and the AST object the first call returned.                      *)
RoundTexts == SeqsUpTo({AsciiByte, TwoByteChar}, MaxSourceLen)

InitRound ==
    /\ Fresh
    /\ \E text \in RoundTexts,
          flags \in SUBSET {"CO_FUTURE_BARRY_AS_BDFL", "PyCF_DONT_IMPLY_DEDENT"},
          dont_inherit \in BOOLEAN, amb \in SUBSET PyCF_MASK,
          optimize \in {o \in OptimizeValues : ~InvalidOptimize(o)} :
           /\ dont_inherit => amb = {}
           /\ session = [step |-> 0, ast |-> NULL, direct |-> NULL, text |-> text,
                         flags |-> flags, dont_inherit |-> dont_inherit,
                         ambient |-> amb, optimize |-> optimize]

CallRound ==
    /\ pc = "idle"
    /\ session.step < 3
    /\ session.step = 2 => session.ast # NULL /\ session.direct # NULL
    /\ Enter(IF session.step = 2 THEN session.ast
             ELSE [kind |-> "str", data |-> session.text],
             "exec",
             IF session.step = 0 THEN session.flags \cup {"PyCF_ONLY_AST"}
             ELSE session.flags,
             session.dont_inherit, session.ambient, session.optimize)
    /\ session' = [session EXCEPT !.step = @ + 1]

\* the caller keeps the AST object of the first call and, of the second
\* call when it succeeded, what the code generator was handed
ReturnRound ==
    /\ pc = "done"
    /\ Reset
    /\ session' = [session EXCEPT
                     !.ast = IF session.step = 1 THEN result ELSE @,
                     !.direct = IF session.step = 2
                                  THEN (IF result # NULL THEN gen ELSE NULL)
                                  ELSE @]

NextRound == CallRound \/ ParseString \/ Steps \/ ReturnRound

SpecRound == InitRound /\ [][NextRound]_vars

(* ------------------------------- claims -------------------------------- *)
InStages(stage) == \E i \in 1..Len(stages) : stages[i] = stage

Returned == pc = "done"

\* the places of a call at which an arena must be live
ArenaInUse == {"obj2mod", "validate", "ast_compile", "parse", "parsed", "mod", "str_compile"}
\* the places of a call after the last use of its arena
ArenaDone == {"str_return", "error", "finally", "done"}

\* C1: every arena a compilation creates is freed exactly once before the
\* call returns, on every exit path; no stage runs on a freed arena and no
\* arena is freed twice.
C1_ArenaFreedExactlyOnce ==
    /\ arenaFrees <= arenaNews
    /\ arenaNews <= 1
    /\ pc \in ArenaInUse => arena = "live" /\ arenaNews = 1 /\ arenaFrees = 0
    /\ pc \in ArenaDone => arena # "live" /\ arenaFrees = arenaNews

\* C1 witness: a pre-built AST the validator rejected, its arena freed once
C1_Witness ==
    /\ Returned
    /\ InStages("PyAST_Validate")
    /\ result = NULL
    /\ exc.msg = "raised by PyAST_Validate"
    /\ arenaNews = 1
    /\ arenaFrees = 1

BadConfiguration ==
    /\ call # NoCall
    /\ \/ call.flags \ RecognisedFlags # {}
       \/ call.optimize \notin {-1, 0, 1, 2}
       \/ call.mode \notin {"exec", "eval", "single"}

ConfigurationMessages ==
    {"compile(): unrecognised flags", "compile(): invalid optimize value",
     "compile() mode must be 'exec', 'eval' or 'single'"}

\* C2: a call with an unrecognised flag bit, an optimize outside -1..2 or an
\* unknown mode fails with a configuration error (a ValueError without
\* line/column), and no normalisation, arena, parse, AST conversion,
\* validation or code generation happens at any point of the call.
C2_ConfigurationErrorFirst ==
    BadConfiguration =>
        /\ stages = <<>>
        /\ arenaNews = 0
        /\ gen = NULL
        /\ ~errInputSet
        /\ Returned =>
             /\ result = NULL
             /\ exc.type = "ValueError"
             /\ exc.msg \in ConfigurationMessages
             /\ ~exc.hasPos

\* C2 witness: optimize = 3 with otherwise valid arguments, rejected
C2_Witness ==
    /\ Returned
    /\ call.optimize = 3
    /\ call.flags = {}
    /\ call.mode = "exec"
    /\ exc.msg = "compile(): invalid optimize value"
    /\ result = NULL

\* C3: with ast_only set and no stage failing, the validator has accepted
\* the tree, the code generator is never invoked and the AST is returned,
\* for text/bytes sources and for a pre-built AST alike.
C3_AstOnlyStopsAfterValidator ==
    (Returned /\ "PyCF_ONLY_AST" \in call.flags /\ result # NULL) =>
        /\ InStages("PyAST_Validate")
        /\ ~InStages("PyAST_CompileObject")
        /\ result.kind = "ast"

\* C4: for a pre-built AST source with a valid configuration the tokenizer
\* and parser are never invoked, the tree is handed to the validator before
\* any result is produced, and a tree that fails conversion or validation
\* never reaches the code generator and makes the call fail.
C4_PrebuiltAstValidated ==
    (Returned /\ call.source.kind = "ast" /\ ~BadConfiguration) =>
        /\ ~InStages("PyParser_ParseStringObject")
        /\ result # NULL => InStages("PyAST_Validate")
        /\ exc.msg \in {"raised by PyAST_obj2mod", "raised by PyAST_Validate"} =>
             /\ ~InStages("PyAST_CompileObject")
             /\ result = NULL

C5Kinds ==
    {"E_TABSPACE", "E_DEDENT", "E_TOODEEP", "E_SYNTAX", "E_TOKEN", "E_EOFS", "E_EOLS",
     "E_EOF", "E_OVERFLOW", "E_LINECONT", "E_IDENTIFIER", "E_BADSINGLE", "E_INTR",
     "E_NOMEM"}

IndentContext(e) == e.expected = "INDENT" \/ e.token \in {"INDENT", "DEDENT"}

\* the table of the claim
C5_Category(e) ==
    IF e.error = "E_TABSPACE" THEN "TabError"
    ELSE IF e.error \in {"E_DEDENT", "E_TOODEEP"} THEN "IndentationError"
    ELSE IF e.error = "E_SYNTAX" /\ IndentContext(e) THEN "IndentationError"
    ELSE IF e.error = "E_INTR" THEN "KeyboardInterrupt"
    ELSE IF e.error = "E_NOMEM" THEN "MemoryError"
    ELSE "SyntaxError"

C6_ErrInputAlwaysSets ==
    /\ Returned => (result = NULL <=> exc # NoExc)
    /\ InStages("err_input") => mod = NULL /\ errInputSet

\* C6 amended: every call ends with a result and no error, or with a failure
\* and one error; whenever the parser returns no tree the parse fails with
\* one error pending, which err_input has set for every kind except E_ERROR
\* and E_INTR with an exception already raised: there it sets nothing and
\* the error is the one the parser raised.
C6_OneOutcome ==
    /\ Returned => (result = NULL <=> exc # NoExc)
    /\ InStages("err_input") =>
         /\ mod = NULL
         /\ exc # NoExc
         /\ errInputSet <=>
              ~(err.error = "E_ERROR" \/ (err.error = "E_INTR" /\ raised # NoExc))
         /\ ~errInputSet => exc = raised

\* C6 witness: a parse that ended with E_ERROR, reported with the parser's
\* own exception
C6_Witness ==
    /\ Returned
    /\ InStages("err_input")
    /\ err.error = "E_ERROR"
    /\ ~errInputSet
    /\ result = NULL
    /\ exc = raised
    /\ exc # NoExc

LegacyMessage == "with Barry as BDFL, use '<>' instead of '!='"

StringLike == {"str", "bytes", "bytearray", "buffer"}
ContainsNul(data) == \E i \in 1..Len(data) : data[i] = NUL
NullBytesMessage == "source code string cannot contain null bytes"
SyntaxErrorTypes == {"SyntaxError", "IndentationError", "TabError"}

\* C9 as stated: a text, bytes, bytearray or buffer source with an embedded
\* NUL makes compile fail with a value error (UnicodeEncodeError is one)
\* that is no SyntaxError, without reaching the tokenizer, parser or arena
\* and with no temporary copy left; a source without NUL is never rejected
\* by this check.
C9_NulRejectedWithValueError ==
    (Returned /\ call.source.kind \in StringLike) =>
        /\ ContainsNul(call.source.data) =>
             /\ result = NULL
             /\ exc.type \in {"ValueError", "UnicodeEncodeError"}
             /\ ~InStages("PyParser_ParseStringObject")
             /\ ~InStages("PyArena_New")
             /\ source_copy # "held"
        /\ ~ContainsNul(call.source.data) => exc.msg # NullBytesMessage

\* the call reached the length check of source_as_string: the configuration
\* was valid, PyAST_Check answered 0, and the bytes of the source were
\* obtained (the text has a UTF-8 encoding, the buffer was copied)
ReachedNulCheck ==
    /\ InStages("source_as_string")
    /\ call.source.kind = "str" =>
         \A i \in 1..Len(call.source.data) : call.source.data[i] # Surrogate
    /\ call.source.kind = "buffer" => source_copy # "none"

\* C9 amended: such a source makes compile fail without reaching the
\* tokenizer, parser or arena and with no temporary copy left, with an error
\* that is no SyntaxError, IndentationError or TabError; the error is the
\* null-bytes ValueError whenever the call reaches the normaliser's length
\* check, and otherwise the error of the step that failed before it; a
\* source without NUL is never rejected by this check.
C9_NulRejected ==
    (Returned /\ call.source.kind \in StringLike) =>
        /\ ContainsNul(call.source.data) =>
             /\ result = NULL
             /\ exc # NoExc
             /\ exc.type \notin SyntaxErrorTypes
             /\ ReachedNulCheck => exc = Exc("ValueError", NullBytesMessage)
             /\ ~InStages("PyParser_ParseStringObject")
             /\ ~InStages("PyArena_New")
             /\ source_copy # "held"
        /\ ~ContainsNul(call.source.data) => exc.msg # NullBytesMessage

\* C9 witness: a buffer with an embedded NUL, rejected, its copy released
C9_Witness ==
    /\ Returned
    /\ call.source = [kind |-> "buffer", data |-> <<AsciiByte, NUL>>]
    /\ exc = Exc("ValueError", NullBytesMessage)
    /\ source_copy = "released"
    /\ stages = <<"source_as_string">>

\* the number of characters a permissive decoding gives: every byte gives
\* one, but for a lead byte and the continuation byte after it, which give
\* one together
DecodedLength(bytes) ==
    Len(bytes)
    - Cardinality({i \in 1..Len(bytes) :
                      /\ bytes[i] = ContByte
                      /\ i > 1
                      /\ bytes[i - 1] = LeadByte})

\* C10: when the offending line is present the reported column is the number
\* of characters in the permissive decoding of the first `offset` bytes and
\* the reported text is the permissive decoding of the whole line; when it
\* is absent the column is the recorded offset and no text is reported; in
\* every case the raw line buffer is freed and the text pointer cleared.
\* (Column and text are those of the exception value err_input builds.)
C10_ColumnInCharacters ==
    InStages("err_input") =>
        /\ ~err.text
        /\ textbuf # "live"
        /\ (exc.hasPos /\ textbuf = "freed") =>
             /\ exc.offset = DecodedLength(SubSeq(err.line, 1, err.offset))
             /\ exc.hasText
             /\ exc.text = PyUnicode_DecodeUTF8(err.line)
             /\ Len(exc.text) = DecodedLength(err.line)
        /\ (exc.hasPos /\ textbuf = "none") =>
             /\ exc.offset = err.offset
             /\ ~exc.hasText

\* C10 witness: one two-byte character before the error, reported as column 1
C10_Witness ==
    /\ InStages("err_input")
    /\ err.line = <<LeadByte, ContByte>>
    /\ err.offset = 2
    /\ exc.hasPos
    /\ exc.offset = 1
    /\ exc.text = <<TwoByteChar>>
    /\ textbuf = "freed"

====
